---- MODULE Spec2Model ----
(***************************************************************************)
(* Model of services/trae-proxy/generate_certs.py: a sequential pipeline   *)
(* that materialises OpenSSL configuration files, issues a self-signed CA  *)
(* and issues a leaf certificate for one domain.  The state is the ca/     *)
(* directory, the temporary directory, the module-level temp_files list,   *)
(* the error stream, the exit code and the position of the running process.*)
(* Keys are abstract identifiers; a certificate records the key it         *)
(* certifies and the key that signed it.  OpenSSL configuration files are  *)
(* sequences of <<section, name, value>> entries, looked up last-wins as   *)
(* OpenSSL's NCONF does.  The CA serial file (ca/ca.srl) is not modelled.  *)
(***************************************************************************)
EXTENDS Integers, Sequences, FiniteSets, TLC

VARIABLES fs, tmpfs, temp_files, pc, entry, domain, domain_subj, temp_cnf,
          diag, exitCode, uncaught, trace, nextKey, runs,
          fs0   \* history: the ca/ directory as the running process found it

vars == <<fs, tmpfs, temp_files, pc, entry, domain, domain_subj, temp_cnf,
          diag, exitCode, uncaught, trace, nextKey, runs, fs0>>

(* Number of processes (runs of the tool) started on the same directory.   *)
MaxRuns == 2

(* Domains passed as --domain; "ca" makes ca/<domain>.key coincide with    *)
(* ca/ca.key and ca/<domain>.crt with ca/ca.crt, "openssl" makes           *)
(* ca/<domain>.cnf coincide with ca/openssl.cnf.                           *)
Domains == {"a.com", "b.com", "ca", "openssl"}

(* Ways a process uses the module: running main(), or importing it and     *)
(* calling generate_server_cert() directly.                                *)
Entries == {"main", "leaf"}

----------------------------------------------------------------------------
(* Paths *)

P(d, ext) == "ca/" \o d \o ext

OPENSSL_CNF == "ca/openssl.cnf"
V3_CA_CNF   == "ca/v3_ca.cnf"
V3_REQ_CNF  == "ca/v3_req.cnf"
CA_KEY      == "ca/ca.key"
CA_CRT      == "ca/ca.crt"

DomainExts == {".cnf", ".subj", ".key", ".key.pkcs8", ".csr", ".crt"}

AllPaths == {OPENSSL_CNF, V3_CA_CNF, V3_REQ_CNF, CA_KEY, CA_CRT}
            \cup {P(d, e) : d \in Domains, e \in DomainExts}

TmpPaths == 1..MaxRuns

----------------------------------------------------------------------------
(* File contents *)

NoFile == [type |-> "none"]
Empty  == [type |-> "empty"]

Exists(f, p) == f[p] # NoFile

Lit(v) == [kind |-> "lit", v |-> v]
Ref(v) == [kind |-> "ref", v |-> v]
Dns(v) == [kind |-> "dns", v |-> v]

Cnf(entries) == [type |-> "cnf", entries |-> entries]

openssl_cnf ==
    Cnf(<< <<"req", "req_extensions", Lit("v3_req")>>,
           <<"req", "x509_extensions", Lit("v3_ca")>>,
           <<"v3_req", "basicConstraints", Lit("CA:FALSE")>>,
           <<"v3_req", "extendedKeyUsage", Lit("serverAuth")>>,
           <<"v3_req", "subjectAltName", Ref("alt_names")>>,
           <<"v3_ca", "basicConstraints", Lit("critical, CA:true")>> >>)

v3_ca_cnf ==
    Cnf(<< <<"v3_ca", "basicConstraints", Lit("critical, CA:true")>> >>)

v3_req_cnf ==
    Cnf(<< <<"v3_req", "basicConstraints", Lit("CA:FALSE")>>,
           <<"v3_req", "extendedKeyUsage", Lit("serverAuth")>>,
           <<"v3_req", "subjectAltName", Ref("alt_names")>> >>)

domain_cnf_default(d) == Cnf(<< <<"alt_names", "DNS.1", Lit(d)>> >>)

(* A subject file: the CN of the subject line and whether the line is      *)
(* surrounded by whitespace.                                               *)
Subj(cn, padded) == [type |-> "subj", cn |-> cn, padded |-> padded]

domain_subj_wrongcn(d) == Subj("api.openai.com", FALSE)
domain_subj_default(d) == Subj(d, FALSE)

(* A private key file: the key pair and its encoding.  genrsa is taken to  *)
(* write the traditional RSA encoding, which the script then converts.     *)
KeyFile(k, enc) == [type |-> "key", id |-> k, enc |-> enc]

Cert(pub, signer, issuer, cn, san, isCA) ==
    [type |-> "cert", pub |-> pub, signer |-> signer, issuer |-> issuer,
     cn |-> cn, san |-> san, isCA |-> isCA]

Csr(pub, cn, san) == [type |-> "csr", pub |-> pub, cn |-> cn, san |-> san]

CA_SUBJECT_CN == "TraeProxy Root CA"

----------------------------------------------------------------------------
(* OpenSSL configuration semantics *)

(* Index of the last entry of a section with the given name, 0 if none:    *)
(* a repeated name in a (repeated) section replaces the earlier value.     *)
LastIndex(entries, section, name) ==
    LET hits == {i \in 1..Len(entries) :
                    entries[i][1] = section /\ entries[i][2] = name}
    IN  IF hits = {} THEN 0 ELSE CHOOSE i \in hits : \A j \in hits : j <= i

HasEntry(entries, section, name) == LastIndex(entries, section, name) # 0

Lookup(entries, section, name) ==
    entries[LastIndex(entries, section, name)][3]

(* The values in force in a section: one per name, the last one given.     *)
SectionValues(entries, section) ==
    {entries[i][3].v : i \in {j \in 1..Len(entries) :
        /\ entries[j][1] = section
        /\ j = LastIndex(entries, section, entries[j][2])}}

(* subjectAltName of the v3_req section: absent, a literal DNS name, or a  *)
(* reference to a section of names; a reference to a section without      *)
(* entries is an error of the extension string.                            *)
SanOk(entries) ==
    \/ ~HasEntry(entries, "v3_req", "subjectAltName")
    \/ LET v == Lookup(entries, "v3_req", "subjectAltName")
       IN  v.kind = "ref" => SectionValues(entries, v.v) # {}

SanOf(entries) ==
    IF ~HasEntry(entries, "v3_req", "subjectAltName") THEN {}
    ELSE LET v == Lookup(entries, "v3_req", "subjectAltName")
         IN  IF v.kind = "ref" THEN SectionValues(entries, v.v) ELSE {v.v}

IsCAOf(entries) ==
    /\ HasEntry(entries, "v3_req", "basicConstraints")
    /\ Lookup(entries, "v3_req", "basicConstraints") # Lit("CA:FALSE")

(* openssl verify -CAfile ca c: c carries the signature of ca's key.       *)
Verifies(c, ca) ==
    /\ c.type = "cert"
    /\ ca.type = "cert"
    /\ c.signer = ca.pub
    /\ c.issuer = ca.cn

----------------------------------------------------------------------------
(* Error reporting and the command runner *)

CmdFailed(cmd) == [kind |-> "command failed", what |-> cmd]
NoOpenSSL      == [kind |-> "openssl not found", what |-> ""]
Missing(file)  == [kind |-> "missing file", what |-> file]

Op(name, ok) == [op |-> name, ok |-> ok]

(* print(message, file=sys.stderr) *)
report(d, message) == Append(d, message)

(* error(message): print and sys.exit(1) *)
error(message) ==
    /\ diag' = report(diag, message)
    /\ exitCode' = 1
    /\ pc' = "exiting"

run_command_unchecked(cmd, ok, next) ==
    /\ trace' = Append(trace, Op(cmd, ok))
    /\ pc' = next
    /\ UNCHANGED <<diag, exitCode>>

(* run_command(command): run it; a non-zero return code is fatal.          *)
run_command(cmd, ok, next) ==
    /\ trace' = Append(trace, Op(cmd, ok))
    /\ IF ~ok
       THEN error(CmdFailed(cmd))
       ELSE pc' = next /\ UNCHANGED <<diag, exitCode>>

(* What a command that failed may leave at its output path: nothing        *)
(* written, or the file opened for writing and left empty.                 *)
FailedOutput(f, out) == {f, [f EXCEPT ![out] = Empty]}

----------------------------------------------------------------------------
(* Temp Resource Manager *)

FreeTmp(t) == {p \in TmpPaths : t[p] = NoFile}

(* tempfile.mkstemp(): a path that does not exist yet *)
mkstemp(t) == CHOOSE p \in FreeTmp(t) : \A q \in FreeTmp(t) : p <= q

(* os.unlink(path): removes the file, raises when there is none *)
unlink(t, p) ==
    IF t[p] # NoFile
    THEN [t |-> [t EXCEPT ![p] = NoFile], err |-> FALSE]
    ELSE [t |-> t, err |-> TRUE]

(* cleanup_temp_files(): unlink every path of temp_files, ignoring errors  *)
RECURSIVE cleanup_temp_files(_, _)
cleanup_temp_files(t, paths) ==
    IF paths = <<>> THEN [t |-> t, raised |-> FALSE]
    ELSE LET r == unlink(t, Head(paths))
         IN  cleanup_temp_files(r.t, Tail(paths))

----------------------------------------------------------------------------
(* Config Materializer *)

write_always(f, p, content) == [f EXCEPT ![p] = content]

(* if not os.path.exists(p): write content *)
write_if_absent(f, p, content) ==
    IF Exists(f, p) THEN f ELSE [f EXCEPT ![p] = content]

write_defaults(f, d) ==
    LET f1 == write_if_absent(f,  OPENSSL_CNF, openssl_cnf)
        f2 == write_if_absent(f1, V3_CA_CNF, v3_ca_cnf)
        f3 == write_if_absent(f2, V3_REQ_CNF, v3_req_cnf)
        f4 == write_if_absent(f3, P(d, ".cnf"), domain_cnf_default(d))
    IN  write_if_absent(f4, P(d, ".subj"), domain_subj_default(d))

----------------------------------------------------------------------------
(* Leaf Issuer helpers *)

required_files_no_ca(d) ==
    << OPENSSL_CNF, V3_REQ_CNF, P(d, ".cnf"), P(d, ".subj") >>

required_files(d) ==
    << OPENSSL_CNF, V3_REQ_CNF, P(d, ".cnf"), P(d, ".subj"), CA_KEY, CA_CRT >>

MissingOf(f, files) == {i \in 1..Len(files) : ~Exists(f, files[i])}

last_missing(f, files) ==
    files[CHOOSE i \in MissingOf(f, files) : \A j \in MissingOf(f, files) : j <= i]

(* the file at which the loop over required_files stops *)
first_missing(f, files) ==
    files[CHOOSE i \in MissingOf(f, files) : \A j \in MissingOf(f, files) : i <= j]

(* f.read() of a configuration file *)
EntriesOf(c) == IF c.type = "cnf" THEN c.entries ELSE <<>>

(* f.read().strip() of the subject file *)
strip(c) == IF c.type = "subj" THEN Subj(c.cn, FALSE) ELSE Subj("", FALSE)
(* merged_cnf = openssl_cnf + "\n" + v3_req_cnf + "\n" + domain_cnf *)
merged_cnf(f, d) ==
    EntriesOf(f[OPENSSL_CNF]) \o EntriesOf(f[V3_REQ_CNF]) \o EntriesOf(f[P(d, ".cnf")])

----------------------------------------------------------------------------
(* Directories the tool may be started on: empty, or holding configuration *)
(* files a user wrote or edited beforehand.                                *)

EmptyDir == [p \in AllPaths |-> NoFile]

edited_openssl_cnf ==
    Cnf(openssl_cnf.entries \o << <<"alt_names", "DNS.2", Lit("second.com")>> >>)

edited_v3_req_cnf ==
    Cnf(<< <<"v3_req", "basicConstraints", Lit("CA:FALSE")>>,
           <<"v3_req", "subjectAltName", Dns("zzz.com")>> >>)

edited_domain_cnf == Cnf(<< <<"alt_names", "DNS.1", Lit("evil.com")>> >>)

edited_domain_subj == Subj("other.com", TRUE)

InitialDirs ==
    { EmptyDir,
      [EmptyDir EXCEPT ![OPENSSL_CNF] = edited_openssl_cnf],
      [EmptyDir EXCEPT ![V3_REQ_CNF] = edited_v3_req_cnf],
      [EmptyDir EXCEPT ![P("a.com", ".cnf")] = edited_domain_cnf],
      [EmptyDir EXCEPT ![P("a.com", ".cnf")] = edited_domain_cnf,
                       ![P("a.com", ".subj")] = edited_domain_subj] }

Init ==
    /\ fs \in InitialDirs
    /\ tmpfs = [p \in TmpPaths |-> NoFile]
    /\ temp_files = <<>>
    /\ pc = "idle"
    /\ entry = "main"
    /\ domain = "a.com"
    /\ domain_subj = Subj("", FALSE)
    /\ temp_cnf = 0
    /\ diag = <<>>
    /\ exitCode = -1
    /\ uncaught = FALSE
    /\ trace = <<>>
    /\ nextKey = 1
    /\ runs = 0
    /\ fs0 = fs

----------------------------------------------------------------------------
(* A new process: module import (temp_files = []), then main() or a direct *)
(* call of generate_server_cert(domain).                                   *)
Start(e, d) ==
    /\ pc \in {"idle", "exited"}
    /\ runs < MaxRuns
    /\ runs' = runs + 1
    /\ entry' = e
    /\ domain' = d
    /\ temp_files' = <<>>
    /\ diag' = <<>>
    /\ trace' = <<>>
    /\ exitCode' = -1
    /\ uncaught' = FALSE
    /\ domain_subj' = Subj("", FALSE)
    /\ temp_cnf' = 0
    /\ pc' = IF e = "main" THEN "check_openssl" ELSE "leaf_check"
    /\ fs0' = fs
    /\ UNCHANGED <<fs, tmpfs, nextKey>>

(* check_openssl(): try: run_command("openssl version") except: error(..)  *)
(* The bare except also catches the SystemExit that error() raises inside  *)
(* run_command, so a failure reports twice.                                *)
check_openssl ==
    /\ pc = "check_openssl"
    /\ \E ok \in BOOLEAN :
        /\ trace' = Append(trace, Op("openssl version", ok))
        /\ IF ok
           THEN pc' = "config" /\ UNCHANGED <<diag, exitCode>>
           ELSE /\ diag' = report(report(diag, CmdFailed("openssl version")), NoOpenSSL)
                /\ exitCode' = 1
                /\ pc' = "exiting"
    /\ UNCHANGED <<fs, tmpfs, temp_files, entry, domain, domain_subj, temp_cnf,
                   uncaught, nextKey, runs, fs0>>

create_default_config_files ==
    /\ pc = "config"
    /\ fs' = write_defaults(fs, domain)
    /\ pc' = "ca_genrsa"
    /\ UNCHANGED <<tmpfs, temp_files, entry, domain, domain_subj, temp_cnf,
                   diag, exitCode, uncaught, trace, nextKey, runs, fs0>>

ca_genrsa_if_absent ==
    /\ pc = "ca_genrsa"
    /\ IF Exists(fs, CA_KEY)
       THEN /\ pc' = "ca_req"
            /\ UNCHANGED <<fs, nextKey, trace, diag, exitCode>>
       ELSE \E ok \in BOOLEAN :
            /\ run_command("genrsa ca.key", ok, "ca_req")
            /\ IF ok
               THEN /\ fs' = [fs EXCEPT ![CA_KEY] = KeyFile(nextKey, "traditional")]
                    /\ nextKey' = nextKey + 1
               ELSE /\ fs' \in FailedOutput(fs, CA_KEY)
                    /\ UNCHANGED nextKey
    /\ UNCHANGED <<tmpfs, temp_files, entry, domain, domain_subj, temp_cnf,
                   uncaught, runs, fs0>>

(* openssl genrsa -out ca/ca.key 2048 *)
ca_genrsa ==
    /\ pc = "ca_genrsa"
    /\ \E ok \in BOOLEAN :
        /\ run_command("genrsa ca.key", ok, "ca_req")
        /\ IF ok
           THEN /\ fs' = [fs EXCEPT ![CA_KEY] = KeyFile(nextKey, "traditional")]
                /\ nextKey' = nextKey + 1
           ELSE /\ fs' \in FailedOutput(fs, CA_KEY)
                /\ UNCHANGED nextKey
    /\ UNCHANGED <<tmpfs, temp_files, entry, domain, domain_subj, temp_cnf,
                   uncaught, runs, fs0>>

(* openssl req -new -x509 -days 36500 -key ca/ca.key -out ca/ca.crt -subj ... *)
ca_req ==
    /\ pc = "ca_req"
    /\ \E ok \in {b \in BOOLEAN : b => fs[CA_KEY].type = "key"} :
        /\ run_command("req -x509 ca.crt", ok, "leaf_check")
        /\ IF ok
           THEN fs' = [fs EXCEPT ![CA_CRT] =
                          Cert(fs[CA_KEY].id, fs[CA_KEY].id, CA_SUBJECT_CN,
                               CA_SUBJECT_CN, {}, TRUE)]
           ELSE fs' \in FailedOutput(fs, CA_CRT)
    /\ UNCHANGED <<tmpfs, temp_files, entry, domain, domain_subj, temp_cnf,
                   uncaught, nextKey, runs, fs0>>

(* generate_server_cert: the loop over required_files *)
leaf_check ==
    /\ pc = "leaf_check"
    /\ IF MissingOf(fs, required_files(domain)) # {}
       THEN error(Missing(first_missing(fs, required_files(domain))))
       ELSE pc' = "leaf_merge" /\ UNCHANGED <<diag, exitCode>>
    /\ UNCHANGED <<fs, tmpfs, temp_files, entry, domain, domain_subj, temp_cnf,
                   uncaught, trace, nextKey, runs, fs0>>

(* generate_server_cert: read the four files, merge, create_temp_file      *)
leaf_merge ==
    /\ pc = "leaf_merge"
    /\ IF \E i \in 1..4 : ~Exists(fs, required_files(domain)[i])
       THEN /\ uncaught' = TRUE
            /\ exitCode' = 1
            /\ pc' = "exiting"
            /\ UNCHANGED <<tmpfs, temp_files, domain_subj, temp_cnf, trace>>
       ELSE LET path == mkstemp(tmpfs) IN
            /\ domain_subj' = strip(fs[P(domain, ".subj")])
            /\ tmpfs' = [tmpfs EXCEPT ![path] = Cnf(merged_cnf(fs, domain))]
            /\ temp_files' = Append(temp_files, path)
            /\ temp_cnf' = path
            /\ trace' = Append(trace, Op("mkstemp", TRUE))
            /\ pc' = "leaf_genrsa"
            /\ UNCHANGED <<uncaught, exitCode>>
    /\ UNCHANGED <<fs, entry, domain, diag, nextKey, runs, fs0>>

(* openssl genrsa -out ca/{domain}.key 2048 *)
leaf_genrsa ==
    /\ pc = "leaf_genrsa"
    /\ \E ok \in BOOLEAN :
        /\ run_command("genrsa", ok, "leaf_pkcs8")
        /\ IF ok
           THEN /\ fs' = [fs EXCEPT ![P(domain, ".key")] = KeyFile(nextKey, "traditional")]
                /\ nextKey' = nextKey + 1
           ELSE /\ fs' \in FailedOutput(fs, P(domain, ".key"))
                /\ UNCHANGED nextKey
    /\ UNCHANGED <<tmpfs, temp_files, entry, domain, domain_subj, temp_cnf,
                   uncaught, runs, fs0>>

(* openssl pkcs8 -topk8 -nocrypt -in ca/{domain}.key -out ca/{domain}.key.pkcs8 *)
leaf_pkcs8 ==
    /\ pc = "leaf_pkcs8"
    /\ \E ok \in {b \in BOOLEAN : b => fs[P(domain, ".key")].type = "key"} :
        /\ run_command("pkcs8", ok, "leaf_move")
        /\ IF ok
           THEN fs' = [fs EXCEPT ![P(domain, ".key.pkcs8")] =
                          KeyFile(fs[P(domain, ".key")].id, "pkcs8")]
           ELSE fs' \in FailedOutput(fs, P(domain, ".key.pkcs8"))
    /\ UNCHANGED <<tmpfs, temp_files, entry, domain, domain_subj, temp_cnf,
                   uncaught, nextKey, runs, fs0>>

(* shutil.move(src, dst): dst takes src's content, src is gone *)
move(f, src, dst) == [f EXCEPT ![dst] = f[src], ![src] = NoFile]

leaf_move_skipped ==
    /\ pc = "leaf_move"
    /\ pc' = "leaf_csr"
    /\ UNCHANGED <<fs, tmpfs, temp_files, entry, domain, domain_subj, temp_cnf,
                   diag, exitCode, uncaught, trace, nextKey, runs, fs0>>

leaf_move ==
    /\ pc = "leaf_move"
    /\ IF ~Exists(fs, P(domain, ".key.pkcs8"))
       THEN /\ uncaught' = TRUE
            /\ exitCode' = 1
            /\ pc' = "exiting"
            /\ UNCHANGED <<fs, trace>>
       ELSE /\ fs' = move(fs, P(domain, ".key.pkcs8"), P(domain, ".key"))
            /\ trace' = Append(trace, Op("move", TRUE))
            /\ pc' = "leaf_csr"
            /\ UNCHANGED <<uncaught, exitCode>>
    /\ UNCHANGED <<tmpfs, temp_files, entry, domain, domain_subj, temp_cnf,
                   diag, nextKey, runs, fs0>>

csr_key_ca(f, d) == f[CA_KEY]

(* -key ca/{domain}.key *)
csr_key(f, d) == f[P(d, ".key")]

(* openssl req -reqexts v3_req: the request needs a readable key, a config *)
(* whose v3_req section resolves, and a subject line starting with "/".    *)
CsrValid(f, t, d, subj, tc) ==
    /\ csr_key(f, d).type = "key"
    /\ t[tc].type = "cnf"
    /\ SanOk(t[tc].entries)
    /\ subj.cn # ""
    /\ ~subj.padded

(* openssl req -reqexts v3_req -sha256 -new -key ca/{domain}.key           *)
(*   -out ca/{domain}.csr -config {temp_cnf} -subj "{domain_subj}"         *)
leaf_csr ==
    /\ pc = "leaf_csr"
    /\ \E ok \in {b \in BOOLEAN : b => CsrValid(fs, tmpfs, domain, domain_subj, temp_cnf)} :
        /\ run_command("req", ok, "leaf_sign")
        /\ IF ok
           THEN fs' = [fs EXCEPT ![P(domain, ".csr")] =
                          Csr(csr_key(fs, domain).id, domain_subj.cn,
                              SanOf(tmpfs[temp_cnf].entries))]
           ELSE fs' \in FailedOutput(fs, P(domain, ".csr"))
    /\ UNCHANGED <<tmpfs, temp_files, entry, domain, domain_subj, temp_cnf,
                   uncaught, nextKey, runs, fs0>>

(* -CAkey ca/ca.key *)
sign_key(f, d) == f[CA_KEY]

(* openssl x509 -req refuses a CA key that does not match the CA           *)
(* certificate, an unreadable request or an unresolvable extension section.*)
SignValid(f, t, d, tc) ==
    /\ f[P(d, ".csr")].type = "csr"
    /\ f[CA_CRT].type = "cert"
    /\ sign_key(f, d).type = "key"
    /\ sign_key(f, d).id = f[CA_CRT].pub
    /\ t[tc].type = "cnf"
    /\ SanOk(t[tc].entries)

(* openssl x509 -req -days 365 -in ca/{domain}.csr -CA ca/ca.crt           *)
(*   -CAkey ca/ca.key -CAcreateserial -out ca/{domain}.crt                 *)
(*   -extfile {temp_cnf} -extensions v3_req                                *)
leaf_sign ==
    /\ pc = "leaf_sign"
    /\ \E ok \in {b \in BOOLEAN : b => SignValid(fs, tmpfs, domain, temp_cnf)} :
        /\ run_command("x509 -req", ok, "leaf_rmcsr")
        /\ IF ok
           THEN fs' = [fs EXCEPT ![P(domain, ".crt")] =
                          Cert(fs[P(domain, ".csr")].pub, sign_key(fs, domain).id,
                               fs[CA_CRT].cn, fs[P(domain, ".csr")].cn,
                               SanOf(tmpfs[temp_cnf].entries),
                               IsCAOf(tmpfs[temp_cnf].entries))]
           ELSE fs' \in FailedOutput(fs, P(domain, ".crt"))
    /\ UNCHANGED <<tmpfs, temp_files, entry, domain, domain_subj, temp_cnf,
                   uncaught, nextKey, runs, fs0>>

(* os.remove(ca/{domain}.csr), then return; main() prints and returns too  *)
leaf_rmcsr ==
    /\ pc = "leaf_rmcsr"
    /\ IF ~Exists(fs, P(domain, ".csr"))
       THEN /\ uncaught' = TRUE
            /\ exitCode' = 1
            /\ pc' = "exiting"
            /\ UNCHANGED <<fs, trace>>
       ELSE /\ fs' = [fs EXCEPT ![P(domain, ".csr")] = NoFile]
            /\ trace' = Append(trace, Op("remove", TRUE))
            /\ IF entry = "main"
               THEN pc' = "exiting" /\ exitCode' = 0
               ELSE pc' = "returned" /\ UNCHANGED exitCode
            /\ UNCHANGED uncaught
    /\ UNCHANGED <<tmpfs, temp_files, entry, domain, domain_subj, temp_cnf,
                   diag, nextKey, runs, fs0>>

(* A caller of generate_server_cert() that releases the temp files itself  *)
(* with cleanup_temp_files() before its script ends.                       *)
caller_cleanup ==
    /\ pc = "returned"
    /\ LET r == cleanup_temp_files(tmpfs, temp_files) IN
        /\ tmpfs' = r.t
        /\ uncaught' = r.raised
        /\ exitCode' = IF r.raised THEN 1 ELSE 0
    /\ pc' = "exiting"
    /\ UNCHANGED <<fs, temp_files, entry, domain, domain_subj, temp_cnf,
                   diag, trace, nextKey, runs, fs0>>

(* A caller whose script ends right after generate_server_cert() returns.  *)
caller_exit ==
    /\ pc = "returned"
    /\ exitCode' = 0
    /\ pc' = "exiting"
    /\ UNCHANGED <<fs, tmpfs, temp_files, entry, domain, domain_subj, temp_cnf,
                   diag, uncaught, trace, nextKey, runs, fs0>>

atexit_skipped_on_error ==
    /\ pc = "exiting"
    /\ tmpfs' = IF exitCode = 0 THEN cleanup_temp_files(tmpfs, temp_files).t ELSE tmpfs
    /\ pc' = "exited"
    /\ UNCHANGED <<fs, temp_files, entry, domain, domain_subj, temp_cnf,
                   diag, exitCode, uncaught, trace, nextKey, runs, fs0>>

(* atexit.register(cleanup_temp_files): runs at interpreter exit, after    *)
(* normal completion, sys.exit(1) and an uncaught exception alike.         *)
atexit ==
    /\ pc = "exiting"
    /\ LET r == cleanup_temp_files(tmpfs, temp_files) IN
        /\ tmpfs' = r.t
        /\ uncaught' = (uncaught \/ r.raised)
    /\ pc' = "exited"
    /\ UNCHANGED <<fs, temp_files, entry, domain, domain_subj, temp_cnf,
                   diag, exitCode, trace, nextKey, runs, fs0>>

Next ==
    \/ \E e \in Entries, d \in Domains : Start(e, d)
    \/ check_openssl
    \/ create_default_config_files
    \/ ca_genrsa
    \/ ca_req
    \/ leaf_check
    \/ leaf_merge
    \/ leaf_genrsa
    \/ leaf_pkcs8
    \/ leaf_move
    \/ leaf_csr
    \/ leaf_sign
    \/ leaf_rmcsr
    \/ caller_cleanup
    \/ caller_exit
    \/ atexit

Spec == Init /\ [][Next]_vars

----------------------------------------------------------------------------
(* Properties *)

Exited == pc = "exited"
Ended == pc \in {"exiting", "exited"}
Succeeded == Ended /\ exitCode = 0

(* C1: once the process has exited, no file created by create_temp_file    *)
(* is left, whether the run completed or aborted with exit code 1 at a     *)
(* later step; and no release (by a caller, then again at exit, or of a    *)
(* file already gone) raised.                                              *)
C1_TempFilesGoneAfterExit ==
    Exited => /\ \A p \in TmpPaths : tmpfs[p] = NoFile
              /\ ~uncaught

C1_Witness ==
    /\ Exited
    /\ exitCode = 1
    /\ temp_files # <<>>
    /\ trace[Len(trace)].op \in {"genrsa", "pkcs8", "req", "x509 -req"}

(* C2: no step ever changes the content of a configuration file that       *)
(* exists: ca/openssl.cnf, ca/v3_ca.cnf, ca/v3_req.cnf, ca/<domain>.cnf    *)
(* and ca/<domain>.subj keep the content they first had, over all runs     *)
(* and domains.                                                            *)
C2_ConfigPaths ==
    {"ca/openssl.cnf", "ca/v3_ca.cnf", "ca/v3_req.cnf"}
    \cup {P(d, ".cnf") : d \in Domains} \cup {P(d, ".subj") : d \in Domains}

C2_CreateIfAbsent ==
    [][\A p \in C2_ConfigPaths : fs[p] # NoFile => fs'[p] = fs[p]]_vars

C2_Witness ==
    /\ pc = "ca_genrsa"
    /\ runs = 2
    /\ domain = "a.com"
    /\ fs0[P("a.com", ".cnf")] = edited_domain_cnf
    /\ fs[P("a.com", ".cnf")] = edited_domain_cnf
    /\ fs0[P("a.com", ".subj")] = NoFile
    /\ fs[P("a.com", ".subj")] # NoFile

(* C3: when generate_server_cert starts with a required artifact absent    *)
(* it aborts with exit code 1 at once: no key is generated, no temp file   *)
(* is created, nothing in ca/ is written, no command is run, in that step  *)
(* or in the rest of the process.                                          *)
C3_Required(d) ==
    {"ca/openssl.cnf", "ca/v3_req.cnf", P(d, ".cnf"), P(d, ".subj"),
     "ca/ca.key", "ca/ca.crt"}

C3_NothingDone ==
    /\ fs' = fs
    /\ nextKey' = nextKey
    /\ temp_files' = temp_files
    /\ trace' = trace
    /\ \A p \in TmpPaths : tmpfs[p] = NoFile => tmpfs'[p] = NoFile

C3_MissingPrerequisiteAborts ==
    [][/\ (pc = "leaf_check" /\ \E f \in C3_Required(domain) : fs[f] = NoFile)
            => (pc' = "exiting" /\ exitCode' = 1 /\ C3_NothingDone)
       /\ pc = "exiting" => (pc' = "exited" /\ C3_NothingDone)]_vars

C3_Witness ==
    /\ Exited
    /\ exitCode = 1
    /\ entry = "leaf"
    /\ fs["ca/ca.key"] = NoFile
    /\ diag = <<Missing("ca/ca.key")>>
    /\ trace = <<>>

(* C4 as stated: the diagnostic of a missing-prerequisite abort names      *)
(* every required artifact that is absent.                                 *)
C4_MissingAbort == Ended /\ diag # <<>> /\ diag[1].kind = "missing file"

C4_AllMissingReported ==
    C4_MissingAbort =>
        {diag[i].what : i \in 1..Len(diag)}
            = {f \in C3_Required(domain) : fs[f] = NoFile}

(* C4 amended: the diagnostic names exactly one artifact, the first absent *)
(* one in the order openssl.cnf, v3_req.cnf, <domain>.cnf, <domain>.subj,  *)
(* ca.key, ca.crt.                                                         *)
C4_Order(d) ==
    <<"ca/openssl.cnf", "ca/v3_req.cnf", P(d, ".cnf"), P(d, ".subj"),
      "ca/ca.key", "ca/ca.crt">>

C4_FirstMissingReported ==
    C4_MissingAbort =>
        /\ Len(diag) = 1
        /\ \E i \in 1..6 :
            /\ diag[1].what = C4_Order(domain)[i]
            /\ fs[C4_Order(domain)[i]] = NoFile
            /\ \A j \in 1..(i - 1) : fs[C4_Order(domain)[j]] # NoFile

C4_Witness ==
    /\ C4_MissingAbort
    /\ Cardinality({f \in C3_Required(domain) : fs[f] = NoFile}) >= 2
    /\ diag[1].what = "ca/ca.key"

(* C5: a command that returns non-zero is the last operation of the run,   *)
(* the run ends with exit code 1, no operation is run twice, and exit code *)
(* 0 means the whole pipeline ran and every operation succeeded.           *)
C5_MainOps ==
    <<"openssl version", "genrsa ca.key", "req -x509 ca.crt", "mkstemp",
      "genrsa", "pkcs8", "move", "req", "x509 -req", "remove">>

C5_LeafOps == <<"mkstemp", "genrsa", "pkcs8", "move", "req", "x509 -req", "remove">>

C5_FailFast ==
    /\ \A i \in 1..Len(trace) :
          ~trace[i].ok => (i = Len(trace) /\ Ended /\ exitCode = 1)
    /\ \A i, j \in 1..Len(trace) : i < j => trace[i].op # trace[j].op
    /\ exitCode = 0 =>
          /\ \A i \in 1..Len(trace) : trace[i].ok
          /\ [i \in 1..Len(trace) |-> trace[i].op]
                = IF entry = "main" THEN C5_MainOps ELSE C5_LeafOps

C5_Witness ==
    /\ Exited
    /\ exitCode = 1
    /\ entry = "main"
    /\ Len(trace) = 8
    /\ ~trace[8].ok

(* C6 as stated: after a successful run for D the leaf certificate has     *)
(* CN = D and SAN = {DNS:D}, whatever ca/ held before the run.             *)
C6_LeafNamesDomain ==
    LET c == fs[P(domain, ".crt")]
    IN  c.type = "cert" /\ c.cn = domain /\ c.san = {domain}

C6_AnyDirectory == Succeeded => C6_LeafNamesDomain

(* C6 amended: it holds when each of ca/openssl.cnf, ca/v3_req.cnf,        *)
(* ca/D.cnf and ca/D.subj was absent before the run or held the content    *)
(* the tool writes by default.                                             *)
C6_DefaultOrAbsent(d) ==
    /\ fs0["ca/openssl.cnf"] \in {NoFile, openssl_cnf}
    /\ fs0["ca/v3_req.cnf"] \in {NoFile, v3_req_cnf}
    /\ fs0[P(d, ".cnf")] \in {NoFile, Cnf(<< <<"alt_names", "DNS.1", Lit(d)>> >>)}
    /\ fs0[P(d, ".subj")] \in {NoFile, Subj(d, FALSE)}

C6_DefaultConfigNamesDomain ==
    (Succeeded /\ C6_DefaultOrAbsent(domain)) => C6_LeafNamesDomain

C6_Witness ==
    /\ Succeeded
    /\ C6_DefaultOrAbsent(domain)
    /\ domain = "b.com"
    /\ fs0[P("b.com", ".subj")] = NoFile
    /\ fs[P("b.com", ".crt")].type = "cert"

(* C7: a completed generate_ca_cert leaves in ca/ca.key a key that no file *)
(* held before and in ca/ca.crt a certificate of that key, different from  *)
(* the earlier one, against which no certificate already in ca/ verifies.  *)
C7_CARotates ==
    [][/\ (pc = "ca_genrsa" /\ pc' = "ca_req") =>
            /\ fs'["ca/ca.key"].type = "key"
            /\ \A p \in AllPaths :
                  fs[p].type = "key" => fs[p].id # fs'["ca/ca.key"].id
            /\ \A p \in AllPaths :
                  fs[p].type = "cert" => fs[p].signer # fs'["ca/ca.key"].id
       /\ (pc = "ca_req" /\ pc' = "leaf_check") =>
            /\ fs'["ca/ca.crt"].type = "cert"
            /\ fs'["ca/ca.crt"].pub = fs'["ca/ca.key"].id
            /\ fs'["ca/ca.crt"] # fs["ca/ca.crt"]
            /\ \A p \in AllPaths \ {"ca/ca.crt"} :
                  fs[p].type = "cert" => ~Verifies(fs'[p], fs'["ca/ca.crt"])]_vars

C7_Witness ==
    /\ runs = 2
    /\ pc = "leaf_check"
    /\ entry = "main"
    /\ fs0["ca/ca.crt"].type = "cert"
    /\ Verifies(fs0[P("a.com", ".crt")], fs0["ca/ca.crt"])
    /\ fs[P("a.com", ".crt")] = fs0[P("a.com", ".crt")]
    /\ ~Verifies(fs[P("a.com", ".crt")], fs["ca/ca.crt"])

(* C8: after a successful run the leaf certificate of the run's domain is  *)
(* signed by the key in ca/ca.key, verifies against ca/ca.crt and          *)
(* certifies the key in ca/<domain>.key.                                   *)
C8_LeafChainsToPersistedCA ==
    Succeeded =>
        LET c == fs[P(domain, ".crt")]
        IN  /\ c.type = "cert"
            /\ fs["ca/ca.key"].type = "key"
            /\ c.signer = fs["ca/ca.key"].id
            /\ Verifies(c, fs["ca/ca.crt"])
            /\ fs[P(domain, ".key")].type = "key"
            /\ c.pub = fs[P(domain, ".key")].id

C8_Witness ==
    /\ Succeeded
    /\ runs = 2
    /\ entry = "main"
    /\ fs0["ca/ca.crt"].type = "cert"
    /\ fs[P(domain, ".crt")].type = "cert"

(* C9: a run reports at most one diagnostic through error(), and exactly   *)
(* one when it aborts with exit code 1.                                    *)
C9_SingleDiagnostic ==
    /\ Len(diag) <= 1
    /\ (Ended /\ exitCode = 1 /\ ~uncaught) => Len(diag) = 1

(* C10: the leaf-issuance operations of a run are a prefix of temp file,   *)
(* key generation, PKCS#8 conversion, move onto the key, request, signing, *)
(* request removal, each started only after the one before succeeded; a    *)
(* successful run did them all, left the key in PKCS#8 form and left       *)
(* neither ca/<domain>.csr nor ca/<domain>.key.pkcs8.                      *)
C10_LeafOrder == <<"mkstemp", "genrsa", "pkcs8", "move", "req", "x509 -req", "remove">>

C10_IsLeafOp(o) == \E i \in 1..7 : C10_LeafOrder[i] = o.op

C10_StrictLeafOrder ==
    LET lt == SelectSeq(trace, C10_IsLeafOp)
    IN  /\ Len(lt) <= 7
        /\ \A i \in 1..Len(lt) :
              /\ lt[i].op = C10_LeafOrder[i]
              /\ i < Len(lt) => lt[i].ok
        /\ exitCode = 0 =>
              /\ Len(lt) = 7
              /\ fs[P(domain, ".csr")] = NoFile
              /\ fs[P(domain, ".key.pkcs8")] = NoFile
              /\ fs[P(domain, ".key")].type = "key"
              /\ fs[P(domain, ".key")].enc = "pkcs8"

C10_Witness ==
    /\ Succeeded
    /\ entry = "main"
    /\ runs = 2
    /\ fs0[P(domain, ".key")].type = "key"
    /\ fs[P(domain, ".key")] # fs0[P(domain, ".key")]

====
